---------------------------- MODULE Spec2Model ----------------------------
(***************************************************************************)
(* Model of the Isolation game-playing agent of src/game_agent.py:         *)
(* custom_score, CustomPlayer.get_move, do_search, minimax and alphabeta.  *)
(*                                                                         *)
(* The agent is driven through the Board capability of isolation.Board     *)
(* (legal-move enumeration, forecast_move, player locations, win/loss) and *)
(* a time_left() clock that every recursive search entry samples.          *)
(* Scores are Python floats in the source; every score the agent computes  *)
(* is an integer (1, -1 or a move count), so they are modelled as integers *)
(* with float("-inf") / float("inf") as values below / above all of them.  *)
(***************************************************************************)
EXTENDS Integers, Sequences, FiniteSets, TLC

(***************************************************************************)
(* Bounds of the model.                                                    *)
(***************************************************************************)
\* the board has Size rows and Size columns
Size == 3
\* plies (moves applied to the board) played from the empty board before a
\* direct call of the searches
MaxPlies == 2
\* plies played from the empty board before a call of get_move
MaxMovePlies == 2
\* deepest depth of a direct call of the searches
MaxDepth == 3
\* largest search_depth a player is configured with
MaxSearchDepth == 2
\* largest finite alpha / beta a direct call of alphabeta is given
MaxBound == 0
\* clock samples a ticking clock answers at or above the threshold, at most
MaxSamples == 8
\* iterations of the deepening loop a behaviour follows under a clock that
\* never runs down (under a clock that runs down the loop ends by itself)
MaxIter == 3

(***************************************************************************)
(* Values of the source.                                                   *)
(***************************************************************************)
\* float("-inf") and float("inf")
NegInf == -1000
PosInf == 1000
\* CustomPlayer.__init__: timeout=10.
TIMER_THRESHOLD == 10
\* CustomPlayer.__init__: search_depth=3
DefaultSearchDepth == 3
\* the no-move sentinel (-1, -1)
NoMove == <<-1, -1>>
\* get_move's fixed opening move
OpeningMove == <<3, 3>>
\* Board.NOT_MOVED: the location of a player that has not been placed
NOT_MOVED == <<-2, -2>>

Methods == {"minimax", "alphabeta", "other"}

(***************************************************************************)
(* The Board capability (isolation.Board).  A game is a record             *)
(*   board  : the set of occupied cells (visited or currently held),       *)
(*   loc    : the location of player 1 and of player 2,                    *)
(*   active : the player to move.                                          *)
(***************************************************************************)
Cells == (0 .. Size - 1) \X (0 .. Size - 1)

\* all cells in row-major order
CellSeq == [i \in 1 .. Size * Size |-> <<(i - 1) \div Size, (i - 1) % Size>>]

\* the L-shaped displacements of a move, in the enumeration order
Directions ==
  << <<-1, -2>>, <<-1, 2>>, <<1, -2>>, <<1, 2>>,
     <<-2, -1>>, <<-2, 1>>, <<2, -1>>, <<2, 1>> >>

EmptyBoard == [board |-> {}, loc |-> <<NOT_MOVED, NOT_MOVED>>, active |-> 1]

get_opponent(player) == 3 - player

get_player_location(game, player) == game.loc[player]

move_is_legal(game, move) == move \in Cells /\ move \notin game.board

get_blank_spaces(game) == SelectSeq(CellSeq, LAMBDA c : c \notin game.board)

\* the ordered legal moves of `player`
get_legal_moves(game, player) ==
  LET at == game.loc[player]
      targets == [i \in 1 .. Len(Directions) |->
                    <<at[1] + Directions[i][1], at[2] + Directions[i][2]>>]
  IN  IF at = NOT_MOVED
        THEN get_blank_spaces(game)
        ELSE SelectSeq(targets, LAMBDA m : move_is_legal(game, m))

\* game.get_legal_moves(): the moves of the player to move
active_moves(game) == get_legal_moves(game, game.active)

\* a new game with the active player moved to `move`
forecast_move(game, move) ==
  [board  |-> game.board \cup {move},
   loc    |-> [game.loc EXCEPT ![game.active] = move],
   active |-> get_opponent(game.active)]

is_winner(game, player) ==
  player = get_opponent(game.active) /\ Len(active_moves(game)) = 0

is_loser(game, player) ==
  player = game.active /\ Len(active_moves(game)) = 0

(***************************************************************************)
(* custom_score: 1 for a won game, -1 for a lost one, otherwise the number *)
(* of legal moves of `player`.                                             *)
(***************************************************************************)
custom_score(game, player) ==
  IF is_winner(game, player) THEN 1
  ELSE IF is_loser(game, player) THEN -1
  ELSE Len(get_legal_moves(game, player))

(***************************************************************************)
(* The clock.  time_left() answers `t`; after the answer the remaining     *)
(* time is t - tick.  tick = 0 is a clock that never runs down.            *)
(***************************************************************************)
\* self.time_left() < self.TIMER_THRESHOLD
TimedOut(t) == t < TIMER_THRESHOLD

(***************************************************************************)
(* The outcome of a search call:                                           *)
(*   to      : TRUE when the call raised Timeout (score and move are then  *)
(*             the locals of the outermost frame at the moment it unwound),*)
(*   score, move : the returned pair,                                      *)
(*   t       : the clock after the call,                                   *)
(*   nodes   : the entries of the search function, one clock sample each,  *)
(*   leaves  : the depth-0 evaluations made,                               *)
(*   visited : the children of the root the branch loop recursed into.     *)
(***************************************************************************)
Outcome(to, score, move, t, nodes, leaves, visited) ==
  [to |-> to, score |-> score, move |-> move, t |-> t,
   nodes |-> nodes, leaves |-> leaves, visited |-> visited]

\* raise Timeout() at the entry of a search call
RaiseTimeout(t, tick) == Outcome(TRUE, 0, NoMove, t - tick, 1, 0, 0)

\* float("-inf") if maximizing_player else float("inf")
InitialScore(maximizing_player) == IF maximizing_player THEN NegInf ELSE PosInf

RECURSIVE minimax(_, _, _, _, _, _)
RECURSIVE minimax_loop(_, _, _, _, _, _, _, _, _, _, _, _)
RECURSIVE alphabeta(_, _, _, _, _, _, _, _)
RECURSIVE alphabeta_loop(_, _, _, _, _, _, _, _, _, _, _, _, _, _)

\* minimax_improves with a bug: a tie replaces the best move too
minimax_improves_on_tie(maximizing_player, new_score, best_score) ==
  IF maximizing_player THEN new_score >= best_score
                       ELSE new_score <= best_score

\* minimax: the new score replaces the best one
minimax_improves(maximizing_player, new_score, best_score) ==
  IF maximizing_player THEN new_score > best_score
                       ELSE new_score < best_score

\* the branch loop of minimax from the i-th legal move on
minimax_loop(self, game, moves, i, depth, maximizing_player, best_score, best_move, t, tick, nodes, leaves) ==
  IF i > Len(moves)
    THEN Outcome(FALSE, best_score, best_move, t, nodes, leaves, i - 1)
    ELSE
      LET r == minimax(self, forecast_move(game, moves[i]), depth - 1,
                       ~maximizing_player, t, tick)
          better == minimax_improves(maximizing_player, r.score, best_score)
      IN  IF r.to
            THEN Outcome(TRUE, best_score, best_move, r.t,
                         nodes + r.nodes, leaves + r.leaves, i)
            ELSE minimax_loop(self, game, moves, i + 1, depth, maximizing_player,
                              IF better THEN r.score ELSE best_score,
                              IF better THEN moves[i] ELSE best_move,
                              r.t, tick, nodes + r.nodes, leaves + r.leaves)

\* minimax_final with a bug: the score of a stuck player is left at its
\* initial value
minimax_final_unset(r, moves, curr_score) == r

\* the end of minimax: if not legal_moves: best_score = curr_score
minimax_final(r, moves, curr_score) ==
  IF ~r.to /\ Len(moves) = 0 THEN [r EXCEPT !.score = curr_score] ELSE r

minimax(self, game, depth, maximizing_player, t, tick) ==
  IF TimedOut(t)
    THEN RaiseTimeout(t, tick)
    ELSE
      LET curr_score == custom_score(game, self)
          curr_position == get_player_location(game, self)
          moves == active_moves(game)
          r == minimax_loop(self, game, moves, 1, depth, maximizing_player,
                            InitialScore(maximizing_player), NoMove,
                            t - tick, tick, 1, 0)
      IN  IF depth = 0
            THEN Outcome(FALSE, curr_score, curr_position, t - tick, 1, 1, 0)
          ELSE minimax_final(r, moves, curr_score)

Max(a, b) == IF a >= b THEN a ELSE b
Min(a, b) == IF a <= b THEN a ELSE b

\* alphabeta_improves with a bug: a tie replaces the best move too
alphabeta_improves_on_tie(maximizing_player, new_score, best_score) ==
  IF maximizing_player THEN new_score >= best_score
                       ELSE new_score <= best_score

\* alphabeta: the new score replaces the best one
alphabeta_improves(maximizing_player, new_score, best_score) ==
  IF maximizing_player THEN new_score > best_score
                       ELSE new_score < best_score

\* alphabeta_cutoff with a bug: the bounds are swapped
alphabeta_cutoff_swapped(maximizing_player, best_score, alpha, beta) ==
  IF maximizing_player THEN best_score >= alpha
                       ELSE best_score <= beta

\* alphabeta_cutoff with a bug: the loop never returns early
alphabeta_cutoff_never(maximizing_player, best_score, alpha, beta) == FALSE

\* alphabeta: the branch loop returns without looking at the remaining moves
alphabeta_cutoff(maximizing_player, best_score, alpha, beta) ==
  IF maximizing_player THEN best_score >= beta
                       ELSE best_score <= alpha

\* alphabeta: the window the next move of the loop is searched with
alphabeta_window(maximizing_player, best_score, alpha, beta) ==
  IF maximizing_player THEN <<Max(alpha, best_score), beta>>
                       ELSE <<alpha, Min(beta, best_score)>>

\* the branch loop of alphabeta from the i-th legal move on
alphabeta_loop(self, game, moves, i, depth, alpha, beta, maximizing_player, best_score, best_move, t, tick, nodes, leaves) ==
  IF i > Len(moves)
    THEN Outcome(FALSE, best_score, best_move, t, nodes, leaves, i - 1)
    ELSE
      LET r == alphabeta(self, forecast_move(game, moves[i]), depth - 1,
                         alpha, beta, ~maximizing_player, t, tick)
          better == alphabeta_improves(maximizing_player, r.score, best_score)
          new_best_score == IF better THEN r.score ELSE best_score
          new_best_move == IF better THEN moves[i] ELSE best_move
          w == alphabeta_window(maximizing_player, new_best_score, alpha, beta)
      IN  IF r.to
            THEN Outcome(TRUE, best_score, best_move, r.t,
                         nodes + r.nodes, leaves + r.leaves, i)
          ELSE IF alphabeta_cutoff(maximizing_player, new_best_score, alpha, beta)
            THEN Outcome(FALSE, new_best_score, new_best_move, r.t,
                         nodes + r.nodes, leaves + r.leaves, i)
          ELSE alphabeta_loop(self, game, moves, i + 1, depth, w[1], w[2],
                              maximizing_player, new_best_score, new_best_move,
                              r.t, tick, nodes + r.nodes, leaves + r.leaves)

alphabeta(self, game, depth, alpha, beta, maximizing_player, t, tick) ==
  IF TimedOut(t)
    THEN RaiseTimeout(t, tick)
  ELSE IF depth = 0
    THEN Outcome(FALSE, custom_score(game, self),
                 get_player_location(game, self), t - tick, 1, 1, 0)
  ELSE IF Len(active_moves(game)) = 0
    THEN Outcome(FALSE, custom_score(game, self), NoMove, t - tick, 1, 0, 0)
  ELSE alphabeta_loop(self, game, active_moves(game), 1, depth, alpha, beta,
                      maximizing_player, InitialScore(maximizing_player), NoMove,
                      t - tick, tick, 1, 0)

(***************************************************************************)
(* do_search: the configured search to `depth` from a maximizing root with *)
(* the full window; an unknown method raises NotImplementedError.          *)
(***************************************************************************)
do_search(self, m, game, d, t, tick) ==
  IF m = "minimax"
    THEN [raised |-> FALSE, r |-> minimax(self, game, d, TRUE, t, tick)]
  ELSE IF m = "alphabeta"
    THEN [raised |-> FALSE,
          r |-> alphabeta(self, game, d, NegInf, PosInf, TRUE, t, tick)]
  ELSE [raised |-> TRUE, r |-> Outcome(FALSE, 0, NoMove, t, 0, 0, 0)]

(***************************************************************************)
(* State.                                                                  *)
(*   game            the board the agent is asked about                    *)
(*   iterative, method, search_depth   the CustomPlayer's configuration    *)
(*   pc              "idle" before any call of get_move, "loop" inside the *)
(*                   deepening loop, "done" once get_move has returned,    *)
(*                   "raised" once it has raised NotImplementedError       *)
(*   legal_moves     get_move's legal_moves argument                       *)
(*   now, tick       the clock handed to get_move                          *)
(*   depth, best_move   get_move's locals                                  *)
(*   returned        the value get_move returned                           *)
(*   searches        the calls of do_search get_move has made              *)
(*   samples         the samples of the clock get_move's searches took     *)
(*   call, mm, ab    the arguments and the outcomes of a direct call of    *)
(*                   minimax and of alphabeta on `game`                    *)
(***************************************************************************)
VARIABLES game, iterative, method, search_depth, pc, legal_moves, now, tick,
          depth, best_move, returned, searches, samples, call, mm, ab

config == <<iterative, method, search_depth>>
getmove == <<pc, legal_moves, now, tick, depth, best_move, returned, searches,
             samples>>
direct == <<call, mm, ab>>
vars == <<game, config, getmove, direct>>

NoCall == [depth |-> -1, alpha |-> NegInf, beta |-> PosInf,
           maximizing_player |-> TRUE, self |-> 0]
NoOutcome == Outcome(FALSE, 0, NoMove, 0, 0, 0, 0)

\* the windows a direct call of alphabeta is given: alpha < beta
Bounds == {NegInf, PosInf} \cup (0 .. MaxBound)
Windows == {w \in Bounds \X Bounds : w[1] < w[2]}

\* nothing has been asked about `game` yet
Quiet == pc = "idle" /\ call = NoCall

ResetGetMove ==
  /\ pc' = "idle"
  /\ legal_moves' = << >>
  /\ now' = 0
  /\ tick' = 0
  /\ depth' = 0
  /\ best_move' = NoMove
  /\ returned' = NoMove
  /\ searches' = 0
  /\ samples' = 0

ResetDirect ==
  /\ call' = NoCall
  /\ mm' = NoOutcome
  /\ ab' = NoOutcome

(***************************************************************************)
(* Board.apply_move: the player to move makes one of its legal moves.      *)
(***************************************************************************)
Play(plies) ==
  /\ Quiet
  /\ Cardinality(game.board) < plies
  /\ \E i \in 1 .. Len(active_moves(game)) :
       game' = forecast_move(game, active_moves(game)[i])
  /\ ResetGetMove
  /\ ResetDirect
  /\ UNCHANGED config

(***************************************************************************)
(* A direct call of minimax and of alphabeta on the same game, depth and   *)
(* layer, with time remaining: the clock stays at the threshold.  `self`   *)
(* moves on the maximizing layers.                                         *)
(***************************************************************************)
Search ==
  /\ Quiet
  /\ \E d \in 0 .. MaxDepth, maximizing_player \in BOOLEAN, w \in Windows :
       LET self == IF maximizing_player THEN game.active
                                        ELSE get_opponent(game.active)
       IN  /\ call' = [depth |-> d, alpha |-> w[1], beta |-> w[2],
                       maximizing_player |-> maximizing_player, self |-> self]
           /\ mm' = minimax(self, game, d, maximizing_player, TIMER_THRESHOLD, 0)
           /\ ab' = alphabeta(self, game, d, w[1], w[2], maximizing_player,
                              TIMER_THRESHOLD, 0)
  /\ UNCHANGED <<game, config, getmove>>

(***************************************************************************)
(* get_move.  The caller hands it the game, a legal_moves list (the moves  *)
(* of the player to move, or an empty list) and a clock: one that runs     *)
(* down by one unit per sample after answering 0 .. MaxSamples samples at  *)
(* or above the threshold, or one that never runs down.                    *)
(***************************************************************************)
Clocks ==
  {<<t, 1>> : t \in TIMER_THRESHOLD - 1 .. TIMER_THRESHOLD + MaxSamples - 1}
    \cup {<<TIMER_THRESHOLD, 0>>}

LegalMovesArgs == {active_moves(game), << >>}

\* self: the player get_move is asked to move for
Self == game.active

\* not_moved with a bug: the opponent's location is looked at
not_moved_opponent(g, self) ==
  get_player_location(g, get_opponent(self)) = NOT_MOVED

\* game.get_player_location(self) == Board.NOT_MOVED
not_moved(g, self) == get_player_location(g, self) = NOT_MOVED

\* after_search with a bug: the best move of a search that timed out is kept
after_search_partial(s, bm) == IF s.raised THEN bm ELSE s.r.move

\* best_move after a call of do_search: assigned only when the call returns
after_search(s, bm) == IF s.raised \/ s.r.to THEN bm ELSE s.r.move

\* next_depth with a bug: a depth is skipped
next_depth_skip(d) == d + 2

\* depth += 1
next_depth(d) == d + 1

\* the entry of get_move, up to `best_move = (-1, -1)`
Enter(lm, clock) ==
  /\ Quiet
  /\ legal_moves' = lm
  /\ now' = clock[1]
  /\ tick' = clock[2]
  /\ UNCHANGED <<game, config, direct>>

\* if not legal_moves: return best_move
GetMoveNoLegalMoves ==
  \E lm \in LegalMovesArgs, clock \in Clocks :
    /\ Enter(lm, clock)
    /\ lm = << >>
    /\ pc' = "done"
    /\ best_move' = NoMove
    /\ returned' = NoMove
    /\ UNCHANGED <<depth, searches, samples>>

\* if game.get_player_location(self) == Board.NOT_MOVED: return 3, 3
GetMoveOpening ==
  \E lm \in LegalMovesArgs, clock \in Clocks :
    /\ Enter(lm, clock)
    /\ lm # << >>
    /\ not_moved(game, Self)
    /\ pc' = "done"
    /\ best_move' = NoMove
    /\ returned' = OpeningMove
    /\ UNCHANGED <<depth, searches, samples>>

\* not self.iterative: one search to search_depth, a Timeout caught
GetMoveFixedDepth ==
  \E lm \in LegalMovesArgs, clock \in Clocks :
    /\ Enter(lm, clock)
    /\ lm # << >>
    /\ ~not_moved(game, Self)
    /\ ~iterative
    /\ LET s == do_search(Self, method, game, search_depth, clock[1], clock[2])
           bm == after_search(s, NoMove)
       IN  /\ pc' = IF s.raised THEN "raised" ELSE "done"
           /\ best_move' = bm
           /\ returned' = bm
           /\ now' = s.r.t
           /\ samples' = s.r.nodes
    /\ searches' = 1
    /\ UNCHANGED depth

\* self.iterative: we_have_time = True; depth = 1
GetMoveIterative ==
  \E lm \in LegalMovesArgs, clock \in Clocks :
    /\ Enter(lm, clock)
    /\ lm # << >>
    /\ ~not_moved(game, Self)
    /\ iterative
    /\ pc' = "loop"
    /\ depth' = 1
    /\ best_move' = NoMove
    /\ UNCHANGED <<returned, searches, samples>>

\* one iteration of `while we_have_time`; a Timeout leaves the loop and
\* get_move returns best_move
Deepen ==
  /\ pc = "loop"
  /\ tick = 0 => depth <= MaxIter
  /\ LET s == do_search(Self, method, game, depth, now, tick)
     IN  /\ pc' = IF s.raised THEN "raised" ELSE IF s.r.to THEN "done" ELSE "loop"
         /\ best_move' = after_search(s, best_move)
         /\ depth' = IF s.raised \/ s.r.to THEN depth ELSE next_depth(depth)
         /\ returned' = IF s.raised THEN returned
                        ELSE IF s.r.to THEN after_search(s, best_move)
                        ELSE returned
         /\ now' = s.r.t
         /\ samples' = samples + s.r.nodes
  /\ searches' = searches + 1
  /\ UNCHANGED <<game, config, legal_moves, tick, direct>>

Init ==
  /\ game = EmptyBoard
  /\ iterative \in BOOLEAN
  /\ method \in Methods
  /\ search_depth \in IF iterative THEN {DefaultSearchDepth}
                                  ELSE 1 .. MaxSearchDepth
  /\ pc = "idle"
  /\ legal_moves = << >>
  /\ now = 0
  /\ tick = 0
  /\ depth = 0
  /\ best_move = NoMove
  /\ returned = NoMove
  /\ searches = 0
  /\ samples = 0
  /\ call = NoCall
  /\ mm = NoOutcome
  /\ ab = NoOutcome

PlayMove == Play(MaxMovePlies)

Next ==
  \/ PlayMove
  \/ GetMoveNoLegalMoves
  \/ GetMoveOpening
  \/ GetMoveFixedDepth
  \/ GetMoveIterative
  \/ Deepen

Spec == Init /\ [][Next]_vars

InitSearch ==
  /\ game = EmptyBoard
  /\ iterative = TRUE
  /\ method = "minimax"
  /\ search_depth = DefaultSearchDepth
  /\ pc = "idle"
  /\ legal_moves = << >>
  /\ now = 0
  /\ tick = 0
  /\ depth = 0
  /\ best_move = NoMove
  /\ returned = NoMove
  /\ searches = 0
  /\ samples = 0
  /\ call = NoCall
  /\ mm = NoOutcome
  /\ ab = NoOutcome

PlayDirect == Play(MaxPlies)

NextSearch == PlayDirect \/ Search

SpecSearch == InitSearch /\ [][NextSearch]_vars

(***************************************************************************)
(* Properties of the searches (SpecSearch).                                *)
(***************************************************************************)
\* a direct call has been made on `game`
Called == call # NoCall

FullWindow == call.alpha = NegInf /\ call.beta = PosInf

\* the legal moves at the root of the direct call
RootMoves == active_moves(game)

IndexOf(seq, x) == CHOOSE i \in 1 .. Len(seq) : seq[i] = x

\* the minimax values of the children of the root of the direct call, in
\* the enumeration order of the moves
ChildScores ==
  [i \in 1 .. Len(RootMoves) |->
     minimax(call.self, forecast_move(game, RootMoves[i]), call.depth - 1,
             ~call.maximizing_player, TIMER_THRESHOLD, 0).score]

\* v is the best of the values cs: the largest on a maximizing root, the
\* smallest on a minimizing one
IsBest(cs, v) ==
  /\ \E i \in 1 .. Len(cs) : cs[i] = v
  /\ \A i \in 1 .. Len(cs) :
       IF call.maximizing_player THEN cs[i] <= v ELSE cs[i] >= v

\* the first index, in enumeration order, of a best value of cs
FirstBest(cs) ==
  CHOOSE i \in 1 .. Len(cs) :
    IsBest(cs, cs[i]) /\ \A j \in 1 .. i - 1 : cs[j] # cs[i]

\* two children of the root share the best value
TieAtRoot ==
  LET cs == ChildScores
  IN  \E i, j \in 1 .. Len(cs) : i < j /\ cs[i] = cs[j] /\ IsBest(cs, cs[i])

\* C1: with time remaining, alphabeta started with the full window on a
\* maximizing root returns the same score as minimax on the same game and
\* depth, for every depth >= 0.
C1_SameScore ==
  (Called /\ FullWindow /\ call.maximizing_player)
    => (~mm.to /\ ~ab.to /\ ab.score = mm.score)

\* C1 witness: a deepest call with the full window in which alphabeta pruned
\* (it evaluated fewer leaves than minimax).
C1_Witness ==
  /\ Called /\ FullWindow /\ call.maximizing_player
  /\ call.depth = MaxDepth
  /\ ab.leaves < mm.leaves
  /\ ab.score = mm.score

C7_Pruning ==
  /\ (Called /\ FullWindow) => ab.leaves <= mm.leaves
  /\ (Called /\ call.depth >= 1 /\ Len(RootMoves) > 0)
       => IF (IF call.maximizing_player THEN ab.score >= call.beta
                                        ELSE ab.score <= call.alpha)
            THEN ab.visited = IndexOf(RootMoves, ab.move)
            ELSE ab.visited = Len(RootMoves)

\* C7 witness: a cutoff at the root left a move unvisited and saved leaves.
C7_Witness ==
  /\ Called /\ call.depth >= 2
  /\ ab.visited < Len(RootMoves)
  /\ ab.leaves < mm.leaves

\* C8: at a root with legal moves and depth >= 1 minimax returns the best
\* child value and the first move, in enumeration order, that reaches it.
C8_FirstBestMove ==
  (Called /\ call.depth >= 1 /\ Len(RootMoves) > 0)
    => LET cs == ChildScores
       IN  /\ IsBest(cs, mm.score)
           /\ mm.move = RootMoves[FirstBest(cs)]

\* C8 witness: two moves tie for the best value, and the earlier one is kept.
C8_Witness ==
  /\ Called /\ call.depth >= 1 /\ Len(RootMoves) > 1
  /\ TieAtRoot
  /\ mm.move = RootMoves[FirstBest(ChildScores)]

\* C9: with the full window on a maximizing root with legal moves and depth
\* >= 1, alphabeta returns the same move as minimax.
C9_SameMove ==
  (Called /\ FullWindow /\ call.maximizing_player
     /\ call.depth >= 1 /\ Len(RootMoves) > 0)
    => ab.move = mm.move

\* C9 witness: alphabeta pruned below a root whose best value is shared by
\* two moves, and both searches return the earlier one.
C9_Witness ==
  /\ Called /\ FullWindow /\ call.maximizing_player
  /\ call.depth >= 2 /\ TieAtRoot
  /\ ab.leaves < mm.leaves
  /\ ab.move = mm.move

(***************************************************************************)
(* Properties of get_move (Spec).                                          *)
(***************************************************************************)
\* the configured method is one do_search knows
ValidMethod == method \in {"minimax", "alphabeta"}

\* the player get_move moves for has been placed on the board
Placed == get_player_location(game, Self) # NOT_MOVED

InSeq(seq, x) == \E i \in 1 .. Len(seq) : seq[i] = x

\* what the clock answered to its latest sample, and what it stood at when
\* get_move was called
LastSample == now + tick
StartClock == now + tick * samples

\* the move a single search to depth d returns on `game` with time remaining
FixedDepthMove(d) ==
  do_search(Self, method, game, d, TIMER_THRESHOLD, 0).r.move

\* the clock samples of the completed searches to depths 1 .. d
RECURSIVE CompletedSamples(_)
CompletedSamples(d) ==
  IF d = 0 THEN 0
  ELSE CompletedSamples(d - 1)
         + do_search(Self, method, game, d, TIMER_THRESHOLD, 0).r.nodes

\* C2 as claimed, for a player that stands on the board: in every
\* configuration and under every clock the move get_move returns is one of
\* legal_moves when that list is not empty, and is (-1, -1) only when it is
\* empty.
C2_Original ==
  (pc = "done" /\ ValidMethod /\ Placed)
    => /\ legal_moves # << >> => InSeq(legal_moves, returned)
       /\ returned = NoMove => legal_moves = << >>

\* C3 as claimed: in iterative mode, for a placed player with a legal move,
\* a clock already below the threshold when get_move is called still yields
\* a legal move.
C3_Original ==
  (pc = "done" /\ iterative /\ ValidMethod /\ Placed
     /\ legal_moves # << >> /\ TimedOut(StartClock))
    => InSeq(legal_moves, returned)

\* C4: in iterative mode, when the searches to depths 1 .. d completed and
\* the search to depth d + 1 raised Timeout, get_move returns exactly the
\* move of a single search to depth d on the same game; the deepening loop
\* holds that move after every completed depth.
C4_AllOrNothing ==
  (iterative /\ ValidMethod /\ Placed)
    => /\ (pc = "loop" /\ searches >= 1)
            => best_move = FixedDepthMove(searches)
       /\ (pc = "done" /\ searches >= 2)
            => /\ depth = searches
               /\ returned = best_move
               /\ returned = FixedDepthMove(searches - 1)

\* C4 witness: depths 1 and 2 completed and the search to depth 3 timed out
\* below its root, after it had looked at some move.
C4_Witness ==
  /\ pc = "done" /\ iterative /\ ValidMethod
  /\ searches = 3
  /\ samples > CompletedSamples(2) + 1
  /\ returned = FixedDepthMove(2)

\* C5 as claimed: for a player that has not been placed get_move returns
\* (3, 3) without a search and without a clock sample, for every clock and
\* every legal_moves argument.
C5_Original ==
  (pc = "done" /\ get_player_location(game, Self) = NOT_MOVED)
    => (returned = OpeningMove /\ searches = 0 /\ samples = 0)

\* C5 amended: for a player that has not been placed get_move returns
\* without a search and without a clock sample, under every clock: (3, 3)
\* for every non-empty legal_moves argument, (-1, -1) for the empty one.
C5_Opening ==
  (pc # "idle" /\ get_player_location(game, Self) = NOT_MOVED)
    => /\ pc = "done"
       /\ searches = 0
       /\ samples = 0
       /\ returned = (IF legal_moves = << >> THEN NoMove ELSE OpeningMove)

\* C5 witness: the opening move returned under a clock that had already
\* run out.
C5_Witness ==
  /\ pc = "done" /\ get_player_location(game, Self) = NOT_MOVED
  /\ legal_moves # << >>
  /\ TimedOut(now)
  /\ returned = OpeningMove

\* C10, the states: the k-th iteration of the deepening loop searches to
\* depth k, and inside the loop no sample of the clock has been below the
\* threshold; get_move has returned from the loop only after a sample below
\* the threshold, so never under a clock that does not run down; a player
\* with a fixed depth never enters the loop and has returned after one
\* search.
C10_States ==
  ValidMethod
    => /\ pc = "loop"
            => (iterative /\ depth = searches + 1 /\ now >= TIMER_THRESHOLD - tick)
       /\ (iterative /\ pc = "done" /\ searches >= 1)
            => (depth = searches /\ TimedOut(LastSample))
       /\ (iterative /\ tick = 0 /\ Placed /\ legal_moves # << >>)
            => pc = "loop"
       /\ ~iterative
            => /\ pc \in {"idle", "done"}
               /\ (pc = "done" /\ Placed /\ legal_moves # << >>)
                    => searches = 1

\* C10, the steps: an iteration either completes and the loop goes on one
\* depth deeper, or it raises Timeout and get_move returns; under a clock
\* that runs down every iteration leaves less time than it found.
C10_Steps ==
  (pc = "loop" /\ ValidMethod)
    => /\ \/ pc' = "loop" /\ depth' = depth + 1 /\ searches' = searches + 1
          \/ pc' = "done" /\ depth' = depth /\ TimedOut(now' + tick')
       /\ tick = 1 => now' < now

\* C10: in iterative mode get_move leaves its loop only through a Timeout,
\* after trying the depths 1, 2, 3, ... in order, and never returns under a
\* clock that stays at the threshold; under a clock that runs down the time
\* left shrinks with every iteration and cannot go below the threshold
\* inside the loop, so the loop ends and get_move returns; with a fixed
\* depth get_move returns after a single search.
C10_Deepening == []C10_States /\ [][C10_Steps]_vars

\* C10 witness: under a clock that does not run down the loop has completed
\* the depths 1 .. MaxIter, the last of them without reaching a depth-0 leaf
\* (the whole game tree below `game` was explored), and get_move has not
\* returned.
C10_Witness ==
  /\ pc = "loop" /\ tick = 0 /\ ValidMethod
  /\ depth = MaxIter + 1
  /\ searches = MaxIter
  /\ do_search(Self, method, game, MaxIter, TIMER_THRESHOLD, 0).r.leaves = 0

=============================================================================
